---- MODULE Spec2Model ----
(***************************************************************************)
(* Model of src/server/server.js: the socket.io relay (the `clients`       *)
(* registry and the 'action' / 'refresh' handlers) and the server-side     *)
(* rendering middleware (match -> fetchComponentData -> renderToString ->  *)
(* renderFullPage, with renderError as the error document).                *)
(***************************************************************************)
EXTENDS Integers, Sequences, FiniteSets, TLC

\* ------------------------------------------------------------------ bounds
\* Number of socket objects socket.io ever hands to io.on('connection').
NumSockets == 3

\* Sockets are numbered in the order socket.io creates them.
Sockets == 1..NumSockets

\* ------------------------------------------------------ JavaScript helpers
Undefined == "undefined"

\* Array.prototype.indexOf: the first index holding x, or -1 (0-based).
indexOf(arr, x) ==
    IF \E i \in 1..Len(arr) : arr[i] = x
    THEN (CHOOSE i \in 1..Len(arr) :
             arr[i] = x /\ \A j \in 1..(i - 1) : arr[j] # x) - 1
    ELSE 0 - 1

\* Array.prototype.splice(start, deleteCount) with no inserted items: a
\* negative start counts from the end of the array (clamped at 0), a start
\* past the end is clamped to the length.
spliceToEnd(arr, start, deleteCount) ==
    LET len  == Len(arr)
        from == IF start < 0 THEN (IF len + start < 0 THEN 0 ELSE len + start)
                ELSE (IF start > len THEN len ELSE start)
    IN  SubSeq(arr, 1, from)

splice(arr, start, deleteCount) ==
    LET len  == Len(arr)
        from == IF start < 0 THEN (IF len + start < 0 THEN 0 ELSE len + start)
                ELSE (IF start > len THEN len ELSE start)
        cnt  == IF deleteCount < 0 THEN 0
                ELSE (IF deleteCount > len - from THEN len - from ELSE deleteCount)
    IN  SubSeq(arr, 1, from) \o SubSeq(arr, from + cnt + 1, len)

\* Array.prototype.push
pushTwice(arr, x) == arr \o <<x, x>>

push(arr, x) == Append(arr, x)

\* ------------------------------------------------------------ socket relay
VARIABLES
    connected,  \* io.sockets: the sockets whose transport is open
    gone,       \* sockets whose transport has closed
    clients,    \* the `clients` array (server.js:166)
    emitted,    \* what the handler that ran last sent: <<[to, event, data]>>
    last        \* the socket event handled last and the registry before it

ioVars == <<connected, gone, clients, emitted, last>>

\* The action types clients send: the three the relay knows and two it does not.
KnownTypes == {"server/addPost", "server/updatePost", "server/addComment"}
ActionTypes == KnownTypes \cup {"server/deletePost", "ADD_POST"}

PostValues == {"{id:7}", Undefined}
CommentValues == {"{cuid:9}", Undefined}

\* The payloads of an 'action' event: objects with a type, and null.
NullAction == [isNull |-> TRUE]
ActionObjects == [type : ActionTypes, post : PostValues, comment : CommentValues]
Actions == ActionObjects \cup {NullAction}

NoData == [none |-> TRUE]
NoEvent == [op |-> "none", sock |-> 0, action |-> NullAction,
            before |-> <<>>, open |-> {}, threw |-> FALSE]

\* The ascending sequence of the elements of a set of sockets: io.sockets
\* keeps its sockets in the order they connected.
RECURSIVE inOrder(_)
inOrder(S) ==
    IF S = {} THEN <<>>
    ELSE LET m == CHOOSE x \in S : \A y \in S : x <= y
         IN  <<m>> \o inOrder(S \ {m})

\* io.sockets.emit(event, data): one message to every open socket.
ioSocketsEmitToOthers(sock, event, data) ==
    LET to == inOrder(connected \ {sock})
    IN  [i \in 1..Len(to) |-> [to |-> to[i], event |-> event, data |-> data]]

ioSocketsEmit(sock, event, data) ==
    LET to == inOrder(connected)
    IN  [i \in 1..Len(to) |-> [to |-> to[i], event |-> event, data |-> data]]

\* The body of socket.on('action', ...): three independent ifs on action.type.
onActionRelaysAnyType(sock, action) ==
    ioSocketsEmit(sock, "action", [type |-> action.type, post |-> action.post])

onActionFallsThrough(sock, action) ==
    (IF action.type = "server/addPost"
     THEN ioSocketsEmit(sock, "action", [type |-> "ADD_POST", post |-> action.post])
     ELSE <<>>)
    \o
    (IF action.type \in {"server/addPost", "server/updatePost"}
     THEN ioSocketsEmit(sock, "action", [type |-> "UPDATE_POST", post |-> action.post])
     ELSE <<>>)
    \o
    (IF action.type = "server/addComment"
     THEN ioSocketsEmit(sock, "action", [type |-> "ADD_COMMENT", comment |-> action.comment])
     ELSE <<>>)

onAction(sock, action) ==
    (IF action.type = "server/addPost"
     THEN ioSocketsEmit(sock, "action", [type |-> "ADD_POST", post |-> action.post])
     ELSE <<>>)
    \o
    (IF action.type = "server/updatePost"
     THEN ioSocketsEmit(sock, "action", [type |-> "UPDATE_POST", post |-> action.post])
     ELSE <<>>)
    \o
    (IF action.type = "server/addComment"
     THEN ioSocketsEmit(sock, "action", [type |-> "ADD_COMMENT", comment |-> action.comment])
     ELSE <<>>)

\* action.type of a null payload throws a TypeError.
onActionThrows(action) == action = NullAction

\* The body of socket.on('disconnect', ...).
onDisconnect(sock) == splice(clients, indexOf(clients, sock), 1)

\* The registration done by io.on('connection', ...).
onConnection(sock) == push(clients, sock)

IOInit ==
    /\ connected = {}
    /\ gone = {}
    /\ clients = <<>>
    /\ emitted = <<>>
    /\ last = NoEvent

\* io.on('connection'): socket.io hands over a new socket object; sockets are
\* numbered in the order they are created (server.js:168-170).
Connection(s) ==
    /\ s \notin connected \cup gone
    /\ \A t \in Sockets : t < s => t \in connected \cup gone
    /\ connected' = connected \cup {s}
    /\ clients' = onConnection(s)
    /\ emitted' = <<>>
    /\ last' = [op |-> "connection", sock |-> s, action |-> NullAction,
                before |-> clients, open |-> connected', threw |-> FALSE]
    /\ UNCHANGED gone

\* The transport of an open socket closes and its 'disconnect' listener runs
\* (server.js:172-176).
Disconnect(s) ==
    /\ s \in connected
    /\ connected' = connected \ {s}
    /\ gone' = gone \cup {s}
    /\ clients' = onDisconnect(s)
    /\ emitted' = <<>>
    /\ last' = [op |-> "disconnect", sock |-> s, action |-> NullAction,
                before |-> clients, open |-> connected', threw |-> FALSE]

\* The 'disconnect' listener of a socket runs again after its transport has
\* closed (a second disconnect of the same socket, server.js:172-176).
DisconnectAgain(s) ==
    /\ s \in gone
    /\ clients' = onDisconnect(s)
    /\ emitted' = <<>>
    /\ last' = [op |-> "disconnect", sock |-> s, action |-> NullAction,
                before |-> clients, open |-> connected, threw |-> FALSE]
    /\ UNCHANGED <<connected, gone>>

\* An open socket delivers an 'action' event (server.js:178-190). Reading
\* action.type of null throws a TypeError before anything is emitted.
Action(s, a) ==
    /\ s \in connected
    /\ emitted' = IF onActionThrows(a) THEN <<>> ELSE onAction(s, a)
    /\ last' = [op |-> "action", sock |-> s, action |-> a,
                before |-> clients, open |-> connected, threw |-> onActionThrows(a)]
    /\ UNCHANGED <<connected, gone, clients>>

\* An open socket delivers 'refresh bloglist' or 'refresh commentlist'
\* (server.js:192-198).
Refresh(s, name) ==
    /\ s \in connected
    /\ emitted' = ioSocketsEmit(s, name, NoData)
    /\ last' = [op |-> name, sock |-> s, action |-> NullAction,
                before |-> clients, open |-> connected, threw |-> FALSE]
    /\ UNCHANGED <<connected, gone, clients>>

IONext ==
    \/ \E s \in Sockets : Connection(s)
    \/ \E s \in Sockets : Disconnect(s)
    \/ \E s \in Sockets : DisconnectAgain(s)
    \/ \E s \in Sockets : \E a \in Actions : Action(s, a)
    \/ \E s \in Sockets : \E name \in {"refresh bloglist", "refresh commentlist"} :
           Refresh(s, name)

\* --------------------------------------------------------------- JSON text
\* Text is a sequence of characters; "</script>" stands for the nine
\* characters of a script end tag, none of which JSON escapes.
Digit == {"0", "1", "2", "3", "4", "5", "6", "7", "8", "9"}
DigitOf(d) == CASE d = 0 -> "0" [] d = 1 -> "1" [] d = 2 -> "2" [] d = 3 -> "3"
                [] d = 4 -> "4" [] d = 5 -> "5" [] d = 6 -> "6" [] d = 7 -> "7"
                [] d = 8 -> "8" [] d = 9 -> "9"
ValueOf(c) == CHOOSE d \in 0..9 : DigitOf(d) = c

\* JSON values: numbers, strings and objects (members in property order).
JNum(n) == [t |-> "num", n |-> n]
JStr(s) == [t |-> "str", s |-> s]
JObj(m) == [t |-> "obj", m |-> m]
Member(k, v) == [k |-> k, v |-> v]

RECURSIVE digits(_)
digits(n) == IF n < 10 THEN <<DigitOf(n)>> ELSE digits(n \div 10) \o <<DigitOf(n % 10)>>

\* The escapes of JSON.stringify's Quote: the quotation mark, the backslash
\* and the line feed.
escapeChar(c) ==
    CASE c = "\"" -> <<"\\", "\"">>
      [] c = "\\" -> <<"\\", "\\">>
      [] c = "\n" -> <<"\\", "n">>
      [] OTHER -> <<c>>

RECURSIVE escapeAll(_)
escapeAll(s) == IF s = <<>> THEN <<>> ELSE escapeChar(Head(s)) \o escapeAll(Tail(s))

quoteRaw(s) == <<"\"">> \o s \o <<"\"">>

quote(s) == <<"\"">> \o escapeAll(s) \o <<"\"">>

\* JSON.stringify(value) for a JSON value.
RECURSIVE JSONstringify(_)
RECURSIVE stringifyMembers(_)
stringifyMembers(m) ==
    IF m = <<>> THEN <<>>
    ELSE quote(Head(m).k) \o <<":">> \o JSONstringify(Head(m).v)
         \o (IF Len(m) > 1 THEN <<",">> ELSE <<>>) \o stringifyMembers(Tail(m))

JSONstringify(v) ==
    CASE v.t = "num" -> digits(v.n)
      [] v.t = "str" -> quote(v.s)
      [] v.t = "obj" -> <<"{">> \o stringifyMembers(v.m) \o <<"}">>

\* JSON.parse(text): a recursive-descent reader. Every reader returns
\* [ok, val, rest]; ok = FALSE is a SyntaxError.
SyntaxError == [ok |-> FALSE, val |-> JNum(0), rest |-> <<>>]
Parsed(v, rest) == [ok |-> TRUE, val |-> v, rest |-> rest]

RECURSIVE readNumber(_, _)
readNumber(text, acc) ==
    IF text # <<>> /\ Head(text) \in Digit
    THEN readNumber(Tail(text), 10 * acc + ValueOf(Head(text)))
    ELSE Parsed(JNum(acc), text)

\* The characters of a string literal after its opening quotation mark.
RECURSIVE readString(_, _)
readString(text, acc) ==
    IF text = <<>> THEN SyntaxError
    ELSE IF Head(text) = "\"" THEN Parsed(JStr(acc), Tail(text))
    ELSE IF Head(text) = "\\"
         THEN IF Len(text) < 2 THEN SyntaxError
              ELSE IF text[2] = "n" THEN readString(Tail(Tail(text)), Append(acc, "\n"))
              ELSE IF text[2] \in {"\"", "\\", "/"}
                   THEN readString(Tail(Tail(text)), Append(acc, text[2]))
              ELSE SyntaxError
    ELSE readString(Tail(text), Append(acc, Head(text)))

RECURSIVE readValue(_)
RECURSIVE readMembers(_, _)
\* The members of an object after "{" or after a ",".
readMembers(text, acc) ==
    IF text = <<>> \/ Head(text) # "\"" THEN SyntaxError
    ELSE LET key == readString(Tail(text), <<>>)
         IN  IF ~key.ok \/ key.rest = <<>> \/ Head(key.rest) # ":" THEN SyntaxError
             ELSE LET val == readValue(Tail(key.rest))
                  IN  IF ~val.ok \/ val.rest = <<>> THEN SyntaxError
                      ELSE LET all == Append(acc, Member(key.val.s, val.val))
                           IN  IF Head(val.rest) = "}"
                               THEN Parsed(JObj(all), Tail(val.rest))
                               ELSE IF Head(val.rest) = ","
                               THEN readMembers(Tail(val.rest), all)
                               ELSE SyntaxError

readValue(text) ==
    IF text = <<>> THEN SyntaxError
    ELSE IF Head(text) \in Digit THEN readNumber(text, 0)
    ELSE IF Head(text) = "\"" THEN readString(Tail(text), <<>>)
    ELSE IF Head(text) = "{"
         THEN IF Len(text) > 1 /\ text[2] = "}"
              THEN Parsed(JObj(<<>>), Tail(Tail(text)))
              ELSE readMembers(Tail(text), <<>>)
    ELSE SyntaxError

JSONparse(text) ==
    LET r == readValue(text)
    IN  IF r.ok /\ r.rest = <<>> THEN r ELSE SyntaxError

\* ------------------------------------------------------ server-side render
\* Number of HTTP requests that reach the rendering middleware.
NumReqs == 2

Reqs == 1..NumReqs

VARIABLES
    env,        \* process.env.NODE_ENV
    navigator,  \* global.navigator.userAgent (server.js:128)
    reqs        \* per request: the closure of the middleware and its response

ssrVars == <<env, navigator, reqs>>
vars == <<connected, gone, clients, emitted, last, env, navigator, reqs>>

Null == [isNull |-> TRUE]
UserAgents == {"Chrome", "Firefox"}

\* What match() can hand to its callback.
MatchErrors == {[stack |-> <<"Error: no route", "at match">>]}
FetchErrors == {[stack |-> <<"Error: fetch failed", "at fetch">>]}
RenderErrors == {[stack |-> <<"Error: render failed">>]}
RedirectLocations ==
    { [pathname |-> <<"/", "posts">>, search |-> <<>>],
      [pathname |-> <<"/", "posts">>, search |-> <<"?", "page=2">>] }
RenderProps == {[components |-> <<"PostListPage">>, params |-> <<>>]}

\* The state of a store made by configureStore(), and the states the store
\* can be in once the matched components have fetched their data.
InitialState == JObj(<<Member(<<"p", "o", "s", "t", "s">>, JObj(<<>>))>>)
PostsState(id, title) ==
    JObj(<<Member(<<"p", "o", "s", "t", "s">>,
           JObj(<<Member(digits(id),
                  JObj(<<Member(<<"i", "d">>, JNum(id)),
                         Member(<<"t", "i", "t", "l", "e">>, JStr(title))>>))>>))>>)
FetchedStates ==
    { PostsState(42, <<"X">>),
      PostsState(7, <<"a", "\"", "b", "\\", "\n">>),
      PostsState(105, <<"<", "</script>">>) }

\* configureStore(): a new store, owned by the request.
configureStore == InitialState

NoBody == [none |-> TRUE]
NoView == [none |-> TRUE]
NoArgs == [err |-> Null, redirectLocation |-> Null, renderProps |-> Null]

\* A request before the middleware has run: `args` are the arguments of the
\* match() callback, the counters count the calls made for this request.
NewReq ==
    [pc |-> "new", ua |-> Undefined, args |-> NoArgs, muiTheme |-> Undefined,
     store |-> Null, stores |-> 0, fetch |-> "none", renders |-> 0,
     renderThrew |-> FALSE, view |-> NoView, contentType |-> Undefined,
     status |-> 0, location |-> <<>>, body |-> NoBody, ends |-> 0,
     nexts |-> 0, nextArg |-> Null]

\* renderFullPage(html, initialState): the parts of the document that depend
\* on its arguments and on NODE_ENV.
renderFullPage(production, html, initialState) ==
    [ stylesheet |-> IF production THEN "assetsManifest['/app.css']" ELSE "",
      root |-> html,
      initialState |-> JSONstringify(initialState),
      webpackManifest |-> IF production THEN "chunkManifest" ELSE "",
      vendor |-> IF production THEN "assetsManifest['/vendor.js']" ELSE "/vendor.js",
      app |-> IF production THEN "assetsManifest['/app.js']" ELSE "/app.js" ]

\* err.stack.replace(/\n/g, `<br>${softTab}`): the lines of the stack joined
\* by a break and a soft tab.
RECURSIVE replaceNewlines(_)
replaceNewlines(lines) ==
    IF Len(lines) <= 1 THEN lines
    ELSE <<Head(lines), "<br>", "softTab">> \o replaceNewlines(Tail(lines))

renderErrorTraceInProduction(production, err) ==
    LET errTrace == IF production
                    THEN <<":<br><br><pre style=\"color:red\">", "softTab">>
                         \o replaceNewlines(err.stack) \o <<"</pre>">>
                    ELSE <<>>
    IN  renderFullPage(production, <<"Server Error">> \o errTrace, JObj(<<>>))

renderError(production, err) ==
    LET errTrace == IF ~production
                    THEN <<":<br><br><pre style=\"color:red\">", "softTab">>
                         \o replaceNewlines(err.stack) \o <<"</pre>">>
                    ELSE <<>>
    IN  renderFullPage(production, <<"Server Error">> \o errTrace, JObj(<<>>))

\* renderToString(<MuiThemeProvider><Provider store>...): the markup is a
\* function of the store's state, the theme's user agent and, for components
\* that read it, global.navigator.
renderToString(muiTheme, state, nav) ==
    <<[state |-> state, themeUA |-> muiTheme, navigatorUA |-> nav]>>

\* store.getState() of the store of request r.
storeGetStateStale(rs, r) == InitialState

storeGetState(rs, r) == rs[r].store

\* if (err) return res.status(500).end(renderError(err));
onMatchErrorCallsNext(rq, production, err) ==
    [rq EXCEPT !.pc = "done", !.nexts = @ + 1, !.nextArg = err]

onMatchError(rq, production, err) ==
    [rq EXCEPT !.pc = "done", !.status = 500,
               !.body = renderError(production, err), !.ends = @ + 1]

\* if (redirectLocation) return res.redirect(302, pathname + search);
onRedirectPathnameOnly(rq, redirectLocation) ==
    [rq EXCEPT !.pc = "done", !.status = 302,
               !.location = redirectLocation.pathname, !.ends = @ + 1]

onRedirect(rq, redirectLocation) ==
    [rq EXCEPT !.pc = "done", !.status = 302,
               !.location = redirectLocation.pathname \o redirectLocation.search,
               !.ends = @ + 1]

\* if (!renderProps) return next();
onNotMatchedSends404(rq) ==
    [rq EXCEPT !.pc = "done", !.status = 404, !.ends = @ + 1, !.nexts = @ + 1]

onNotMatched(rq) == [rq EXCEPT !.pc = "done", !.nexts = @ + 1]

\* getMuiTheme, configureStore and the call of fetchComponentData.
onMatched(rq) ==
    [rq EXCEPT !.pc = "fetching", !.muiTheme = rq.ua, !.store = configureStore,
               !.stores = @ + 1, !.fetch = "pending"]

\* .catch((error) => next(error))
catchSwallowsError(rq, error) == [rq EXCEPT !.pc = "swallowed"]

catchRespondsAndCallsNext(rq, error) ==
    [rq EXCEPT !.pc = "done", !.status = 500, !.ends = @ + 1,
               !.nexts = @ + 1, !.nextArg = error]

catch(rq, error) == [rq EXCEPT !.pc = "done", !.nexts = @ + 1, !.nextArg = error]

SSRInit ==
    /\ env \in {"production", "development"}
    /\ navigator = Undefined
    /\ reqs = [r \in Reqs |-> NewReq]

production == env = "production"

\* The middleware is entered and calls match() (server.js:114-115). Requests
\* are numbered in the order they arrive.
Request(r, ua) ==
    /\ reqs[r].pc = "new"
    /\ \A q \in Reqs : q < r => reqs[q].pc # "new"
    /\ reqs' = [reqs EXCEPT ![r].pc = "matching", ![r].ua = ua]
    /\ UNCHANGED <<env, navigator>>

\* The callback of match() (server.js:115-135): the first of err,
\* redirectLocation, !renderProps that applies ends the request; otherwise
\* global.navigator is set, a store is made and the prefetch starts.
MatchCallback(r, err, redirectLocation, renderProps) ==
    /\ reqs[r].pc = "matching"
    /\ LET rq == [reqs[r] EXCEPT !.args = [err |-> err,
                                           redirectLocation |-> redirectLocation,
                                           renderProps |-> renderProps]]
       IN  IF err # Null
           THEN /\ reqs' = [reqs EXCEPT ![r] = onMatchError(rq, production, err)]
                /\ UNCHANGED navigator
           ELSE IF redirectLocation # Null
           THEN /\ reqs' = [reqs EXCEPT ![r] = onRedirect(rq, redirectLocation)]
                /\ UNCHANGED navigator
           ELSE IF renderProps = Null
           THEN /\ reqs' = [reqs EXCEPT ![r] = onNotMatched(rq)]
                /\ UNCHANGED navigator
           ELSE /\ navigator' = rq.ua
                /\ reqs' = [reqs EXCEPT ![r] = onMatched(rq)]
    /\ UNCHANGED env

\* fetchComponentData resolves with the store populated: the .then callback
\* renders, reads the final state and ends the response with 200
\* (server.js:136-152); an exception thrown by renderToString goes to .catch.
FetchResolved(r, data, thrown) ==
    /\ reqs[r].pc = "fetching"
    /\ LET fetched == [reqs EXCEPT ![r].store = data, ![r].fetch = "resolved",
                                   ![r].renders = @ + 1]
       IN  IF thrown # Null
           THEN reqs' = [fetched EXCEPT ![r] = catch([@ EXCEPT !.renderThrew = TRUE], thrown)]
           ELSE LET initialView == renderToString(fetched[r].muiTheme,
                                                  storeGetState(fetched, r), navigator)
                    finalState == storeGetState(fetched, r)
                IN  reqs' = [fetched EXCEPT
                               ![r].pc = "done",
                               ![r].view = initialView,
                               ![r].contentType = "text/html",
                               ![r].status = 200,
                               ![r].body = renderFullPage(production, initialView, finalState),
                               ![r].ends = @ + 1]
    /\ UNCHANGED <<env, navigator>>

\* fetchComponentData rejects: .catch calls next(error) (server.js:153). The
\* requirements that had finished have already written to the store.
FetchRejectedStillRenders(r, partial, error) ==
    /\ reqs[r].pc = "fetching"
    /\ reqs' = [reqs EXCEPT ![r] = catch([@ EXCEPT !.store = partial,
                                                   !.fetch = "rejected",
                                                   !.renders = @ + 1], error)]
    /\ UNCHANGED <<env, navigator>>

FetchRejected(r, partial, error) ==
    /\ reqs[r].pc = "fetching"
    /\ reqs' = [reqs EXCEPT ![r] = catch([@ EXCEPT !.store = partial,
                                                   !.fetch = "rejected"], error)]
    /\ UNCHANGED <<env, navigator>>

SSRNext ==
    \/ \E r \in Reqs : \E ua \in UserAgents : Request(r, ua)
    \/ \E r \in Reqs : \E err \in MatchErrors \cup {Null} :
           \E redirectLocation \in RedirectLocations \cup {Null} :
               \E renderProps \in RenderProps \cup {Null} :
                   MatchCallback(r, err, redirectLocation, renderProps)
    \/ \E r \in Reqs : \E data \in FetchedStates :
           \E e \in RenderErrors \cup {Null} : FetchResolved(r, data, e)
    \/ \E r \in Reqs : \E partial \in FetchedStates \cup {InitialState} :
           \E error \in FetchErrors : FetchRejected(r, partial, error)

Init == IOInit /\ SSRInit

\* The socket relay alone, and the rendering middleware alone.
SpecIO == Init /\ [][IONext /\ UNCHANGED ssrVars]_vars

SpecSSR == Init /\ [][SSRNext /\ UNCHANGED ioVars]_vars

Next ==
    \/ IONext /\ UNCHANGED ssrVars
    \/ SSRNext /\ UNCHANGED ioVars

\* Both parts interleaved (about 2.7 million states at NumSockets = 3,
\* NumReqs = 2).
Spec == Init /\ [][Next]_vars
\* ------------------------------------------- relay and render interleaved
\* Socket events arriving while requests are suspended on match() or on their
\* prefetch. To keep the product small the requests carry one user agent and
\* fetch one state, match() calls back the way react-router does (an error, a
\* redirect, render properties or nothing), and the sockets connect,
\* disconnect and send refresh events.
RefreshEvents == {"refresh bloglist", "refresh commentlist"}

MatchResults ==
    { [err |-> e, redirectLocation |-> Null, renderProps |-> Null] : e \in MatchErrors }
    \cup { [err |-> Null, redirectLocation |-> l, renderProps |-> Null] :
               l \in {[pathname |-> <<"/", "posts">>, search |-> <<>>]} }
    \cup { [err |-> Null, redirectLocation |-> Null, renderProps |-> p] : p \in RenderProps }
    \cup { NoArgs }

\* match() calls back for request r.
CallsBack(r) ==
    \E m \in MatchResults : MatchCallback(r, m.err, m.redirectLocation, m.renderProps)

\* The promise of fetchComponentData settles for request r.
Settles(r) ==
    \/ \E e \in RenderErrors \cup {Null} : FetchResolved(r, PostsState(42, <<"X">>), e)
    \/ \E error \in FetchErrors : FetchRejected(r, InitialState, error)

BothNext ==
    \/ (\E s \in Sockets : Connection(s)) /\ UNCHANGED ssrVars
    \/ (\E s \in Sockets : Disconnect(s)) /\ UNCHANGED ssrVars
    \/ (\E s \in Sockets : \E name \in RefreshEvents : Refresh(s, name)) /\ UNCHANGED ssrVars
    \/ (\E r \in Reqs : Request(r, "Chrome")) /\ UNCHANGED ioVars
    \/ (\E r \in Reqs : CallsBack(r)) /\ UNCHANGED ioVars
    \/ (\E r \in Reqs : Settles(r)) /\ UNCHANGED ioVars

SpecBoth == Init /\ [][BothNext]_vars

\* The requests as above, with sockets that connect and send 'refresh
\* bloglist'. match() calls its callback and the prefetch promise settles:
\* node runs every callback that is ready, hence the weak fairness.
LiveNext ==
    \/ (\E s \in Sockets : Connection(s)) /\ UNCHANGED ssrVars
    \/ (\E s \in Sockets : Refresh(s, "refresh bloglist")) /\ UNCHANGED ssrVars
    \/ (\E r \in Reqs : Request(r, "Chrome")) /\ UNCHANGED ioVars
    \/ (\E r \in Reqs : CallsBack(r)) /\ UNCHANGED ioVars
    \/ (\E r \in Reqs : Settles(r)) /\ UNCHANGED ioVars

SpecLive ==
    /\ Init
    /\ [][LiveNext]_vars
    /\ \A r \in Reqs : WF_vars((CallsBack(r) \/ Settles(r)) /\ UNCHANGED ioVars)

\* ------------------------------------------------------------------ claims
InRegistry(arr, s) == \E i \in 1..Len(arr) : arr[i] = s
Without(arr, s) == SelectSeq(arr, LAMBDA x : x # s)
Recipients == {emitted[i].to : i \in 1..Len(emitted)}
KnownAction == last.op = "action" /\ ~last.threw /\ last.action.type \in KnownTypes

\* The event a known action is to be translated to.
Translated(action) ==
    CASE action.type = "server/addPost" -> [type |-> "ADD_POST", post |-> action.post]
      [] action.type = "server/updatePost" -> [type |-> "UPDATE_POST", post |-> action.post]
      [] action.type = "server/addComment" -> [type |-> "ADD_COMMENT", comment |-> action.comment]

\* C1: an 'action' event of a known type sent by an open socket A is received,
\* translated, by every other open socket and is never received by A itself.
C1_RelayedToOthersNeverToSender ==
    KnownAction =>
        /\ \A s \in last.open \ {last.sock} :
               \E i \in 1..Len(emitted) :
                   /\ emitted[i].to = s
                   /\ emitted[i].event = "action"
                   /\ emitted[i].data = Translated(last.action)
        /\ last.sock \notin Recipients

\* C2: a request whose route matched and whose prefetch failed is answered
\* with status 500 and a document that embeds the empty object as its state.
C2_PrefetchFailureIs500EmptyState ==
    \A r \in Reqs :
        reqs[r].fetch = "rejected" =>
            /\ reqs[r].status = 500
            /\ reqs[r].body # NoBody
            /\ reqs[r].body.initialState = <<"{", "}">>

\* C3: a request whose route matched, whose prefetch succeeded and whose
\* render did not throw is answered with status 200, and the state embedded
\* in its document, parsed, is the final state of the request's own store.
C3_EmbeddedStateIsOwnStore ==
    \A r \in Reqs :
        (reqs[r].fetch = "resolved" /\ ~reqs[r].renderThrew) =>
            /\ reqs[r].status = 200
            /\ reqs[r].body # NoBody
            /\ JSONparse(reqs[r].body.initialState).ok
            /\ JSONparse(reqs[r].body.initialState).val = reqs[r].store

\* Two requests answered with 200 whose stores differ, one of them holding a
\* string with a quotation mark, a backslash and a line feed.
C3_Witness ==
    \E r, q \in Reqs :
        /\ reqs[r].status = 200 /\ reqs[q].status = 200
        /\ reqs[r].store # reqs[q].store
        /\ reqs[r].store = PostsState(7, <<"a", "\"", "b", "\\", "\n">>)

\* C4: when match() yields a redirect target and no error, the response is a
\* 302 whose location is the target's pathname followed by its search string,
\* and no store is made, nothing is prefetched and nothing is rendered.
C4_RedirectExactNoRender ==
    \A r \in Reqs :
        (reqs[r].pc # "matching" /\ reqs[r].args.err = Null
             /\ reqs[r].args.redirectLocation # Null) =>
            /\ reqs[r].status = 302
            /\ reqs[r].location = reqs[r].args.redirectLocation.pathname
                                      \o reqs[r].args.redirectLocation.search
            /\ reqs[r].stores = 0
            /\ reqs[r].fetch = "none"
            /\ reqs[r].renders = 0
            /\ reqs[r].nexts = 0

\* A redirect whose target has a search string, given along with renderProps.
C4_Witness ==
    \E r \in Reqs :
        /\ reqs[r].pc = "done"
        /\ reqs[r].args.err = Null
        /\ reqs[r].args.redirectLocation # Null
        /\ reqs[r].args.redirectLocation.search # <<>>
        /\ reqs[r].status = 302

\* C5: when match() yields no error, no redirect and no render properties,
\* the middleware calls next() without an error and writes neither a status
\* nor a body.
C5_NotMatchedDefersToNext ==
    \A r \in Reqs :
        (reqs[r].pc # "new" /\ reqs[r].pc # "matching" /\ reqs[r].args = NoArgs) =>
            /\ reqs[r].nexts = 1
            /\ reqs[r].nextArg = Null
            /\ reqs[r].status = 0
            /\ reqs[r].body = NoBody
            /\ reqs[r].ends = 0

C5_Witness ==
    \E r \in Reqs : reqs[r].pc = "done" /\ reqs[r].args = NoArgs /\ reqs[r].nexts = 1

\* C6: an 'action' event whose type is none of the three known types emits
\* nothing to any socket and throws nothing, whatever the registry holds.
C6_UnknownTypeEmitsNothing ==
    (last.op = "action" /\ last.action \in ActionObjects
         /\ last.action.type \notin KnownTypes) =>
        emitted = <<>> /\ ~last.threw

\* An unknown type handled while other sockets are open.
C6_Witness ==
    /\ last.op = "action"
    /\ last.action \in ActionObjects
    /\ last.action.type = "server/deletePost"
    /\ Cardinality(last.open) >= 2

\* C7: a socket is in the clients registry iff its transport is open.
C7_RegisteredIffOpen ==
    \A s \in Sockets : InRegistry(clients, s) <=> s \in connected

\* C8: the disconnect of a registered socket h removes exactly h: h is absent
\* afterwards and the other registered sockets stay, in the same order.
C8_DisconnectRemovesExactlyH ==
    (last.op = "disconnect" /\ InRegistry(last.before, last.sock)) =>
        /\ ~InRegistry(clients, last.sock)
        /\ clients = Without(last.before, last.sock)

\* The first of three registered sockets disconnects.
C8_Witness ==
    /\ last.op = "disconnect"
    /\ Len(last.before) >= 3
    /\ last.before[1] = last.sock
    /\ Len(clients) = Len(last.before) - 1

\* C9: a disconnect event for a socket that is not in the registry leaves the
\* registry exactly as it was.
C9_UnregisteredDisconnectIsNoOp ==
    (last.op = "disconnect" /\ ~InRegistry(last.before, last.sock)) =>
        clients = last.before

\* C10: no socket appears more than once in the clients registry.
C10_NoDuplicates ==
    \A i, j \in 1..Len(clients) : clients[i] = clients[j] => i = j

\* Two registered sockets after an earlier socket has come and gone.
C10_Witness == Len(clients) >= 2 /\ gone # {}
\* C11: for one incoming 'action' event every socket other than the origin is
\* sent at most one message, and the handler emits at most once.
C11_AtMostOneMessagePerSocket ==
    (last.op = "action") =>
        /\ \A s \in Sockets \ {last.sock} :
               Cardinality({i \in 1..Len(emitted) : emitted[i].to = s}) <= 1
        /\ Len(emitted) <= Cardinality(last.open)

\* A known action relayed while two other sockets are open.
C11_Witness ==
    /\ KnownAction
    /\ Cardinality(last.open \ {last.sock}) >= 2
    /\ \A s \in last.open \ {last.sock} : s \in Recipients

\* The root of the error document: the generic text, then the trace if any.
IsErrorDocument(doc) ==
    doc # NoBody /\ doc.root # <<>> /\ doc.root[1] = "Server Error"

\* C12: when match() reports an error the request ends with a 500 whose body
\* is the error document with an empty embedded state; there is no redirect,
\* no call of next, no store, no prefetch and no render.
C12_MatchErrorIs500ErrorDocument ==
    \A r \in Reqs :
        (reqs[r].pc # "matching" /\ reqs[r].args.err # Null) =>
            /\ reqs[r].pc = "done"
            /\ reqs[r].status = 500
            /\ reqs[r].ends = 1
            /\ IsErrorDocument(reqs[r].body)
            /\ reqs[r].body.initialState = <<"{", "}">>
            /\ reqs[r].location = <<>>
            /\ reqs[r].nexts = 0
            /\ reqs[r].stores = 0
            /\ reqs[r].fetch = "none"
            /\ reqs[r].renders = 0

\* A match error reported together with a redirect target and renderProps.
C12_Witness ==
    \E r \in Reqs :
        /\ reqs[r].pc = "done"
        /\ reqs[r].args.err # Null
        /\ reqs[r].args.redirectLocation # Null
        /\ reqs[r].args.renderProps # Null
        /\ reqs[r].status = 500

\* C13: an exception thrown by renderToString after a successful prefetch
\* ends the request as a prefetch failure is said to end it, with a 500 error
\* document embedding an empty state, and the render is attempted once.
C13_RenderErrorIs500ErrorDocument ==
    \A r \in Reqs :
        reqs[r].renderThrew =>
            /\ reqs[r].status = 500
            /\ IsErrorDocument(reqs[r].body)
            /\ reqs[r].body.initialState = <<"{", "}">>
            /\ reqs[r].renders = 1

\* The four terminal outcomes of the middleware for a request.
Redirect(rq) == rq.status = 302 /\ rq.ends = 1 /\ rq.nexts = 0
NextHandler(rq) == rq.nexts = 1 /\ rq.ends = 0 /\ rq.status = 0 /\ rq.body = NoBody
RenderedOK(rq) == rq.status = 200 /\ rq.ends = 1 /\ rq.nexts = 0
RenderedError(rq) == rq.status = 500 /\ rq.ends = 1 /\ rq.nexts = 0
Outcomes(rq) ==
    (IF Redirect(rq) THEN {"Redirect"} ELSE {})
    \cup (IF NextHandler(rq) THEN {"NextHandler"} ELSE {})
    \cup (IF RenderedOK(rq) THEN {"RenderedOK"} ELSE {})
    \cup (IF RenderedError(rq) THEN {"RenderedError"} ELSE {})

C15_RenderObservesOwnData ==
    \A r \in Reqs :
        reqs[r].status = 200 =>
            /\ reqs[r].view[1].state = reqs[r].store
            /\ reqs[r].view[1].themeUA = reqs[r].ua
            /\ reqs[r].view[1].navigatorUA = reqs[r].ua

InRoot(doc, token) == \E i \in 1..Len(doc.root) : doc.root[i] = token
StackLines(err) == {err.stack[i] : i \in 1..Len(err.stack)}

\* C16: the error document holds the lines of the error's stack iff NODE_ENV
\* is not production; in production it holds the text 'Server Error' alone.
C16_TraceOnlyOutsideProduction ==
    \A r \in Reqs :
        (reqs[r].status = 500 /\ IsErrorDocument(reqs[r].body)) =>
            /\ ~production =>
                   \A line \in StackLines(reqs[r].args.err) : InRoot(reqs[r].body, line)
            /\ production => reqs[r].body.root = <<"Server Error">>

\* An error document served outside production with a two-line stack.
C16_Witness ==
    \E r \in Reqs :
        /\ reqs[r].status = 500
        /\ ~production
        /\ Len(reqs[r].args.err.stack) >= 2
        /\ InRoot(reqs[r].body, "<br>")

\* C17: the inline script never holds an unescaped script end tag taken from
\* the snapshot.
C17_NoScriptEndTagInInlineState ==
    \A r \in Reqs :
        reqs[r].body # NoBody =>
            \A i \in 1..Len(reqs[r].body.initialState) :
                reqs[r].body.initialState[i] # "</script>"

\* C18: renderToString runs for a request only after its prefetch resolved;
\* after a failed prefetch nothing is rendered and no document is made, even
\* when the store was partly populated.
C18_RenderOnlyAfterPrefetchResolved ==
    \A r \in Reqs :
        /\ reqs[r].renders > 0 => reqs[r].fetch = "resolved"
        /\ reqs[r].fetch = "rejected" =>
               (reqs[r].renders = 0 /\ reqs[r].view = NoView /\ reqs[r].body = NoBody)

\* A failed prefetch that left fetched data in the store.
C18_Witness ==
    \E r \in Reqs :
        /\ reqs[r].fetch = "rejected"
        /\ reqs[r].store \in FetchedStates
        /\ reqs[r].pc = "done"
\* C19: with match() calling back and the prefetch promise settling, every
\* request that entered the middleware ends in one terminal outcome, whatever
\* other requests and socket events are interleaved with it.
C19_EveryRequestTerminates ==
    \A r \in Reqs :
        (reqs[r].pc = "matching") ~>
            (reqs[r].pc = "done" /\ reqs[r].ends + reqs[r].nexts = 1)

\* A request has ended while another is suspended on its prefetch and socket
\* events have been handled.
C19_Witness ==
    \E r, q \in Reqs :
        /\ reqs[r].pc = "done"
        /\ reqs[q].pc = "fetching"
        /\ last.op \in RefreshEvents
        /\ connected # {}

\* What the handler of the refresh event handled last has sent and kept.
RefreshRelayed ==
    /\ Recipients = last.open
    /\ last.sock \in Recipients
    /\ Len(emitted) = Cardinality(last.open)
    /\ \A i \in 1..Len(emitted) :
           emitted[i].event = last.op /\ emitted[i].data = NoData
    /\ clients = last.before

\* C20: a refresh event from an open socket is relayed under its own name,
\* without payload, once to every open socket, the sender included, and the
\* step that handles it leaves the clients registry and every request's
\* store as they were.
C20_RefreshRelayedToAll ==
    [][(last'.op \in RefreshEvents) =>
           /\ RefreshRelayed'
           /\ (ioVars' # ioVars) =>
                  (clients' = clients /\ \A r \in Reqs : reqs'[r].store = reqs[r].store)]_vars

\* A refresh relayed to the sender and another socket while a request's store
\* is being populated.
C20_Witness ==
    /\ last.op \in RefreshEvents
    /\ last.sock \in Recipients
    /\ Cardinality(Recipients) >= 2
    /\ \E r \in Reqs : reqs[r].pc = "fetching" /\ reqs[r].store # Null
====
